---- MODULE Spec2Model ----
(***************************************************************************)
(* Model of the irrigation telemetry processor (src/vps/processor.py):     *)
(* the per-sensor filtering pipeline (SensorState), the registry dict      *)
(* shared by the MQTT message callback and the monitor thread, and the     *)
(* periodic monitor (check_stale, print_health_summary).                   *)
(*                                                                         *)
(* Numbers.  Moisture values are Python floats in the source; here         *)
(*   - a raw value is a whole number of moisture units,                    *)
(*   - a median, a filtered value and a residual are whole hundredths of   *)
(*     a unit ("cents": what round(x, 2) keeps),                           *)
(*   - the EMA accumulator is a whole number of 1/EmaResolution cents,     *)
(*     so the first six smoothing steps are exact and a later one is       *)
(*     rounded to that resolution, as float64 rounds at its own,           *)
(*   - time (sender timestamps and the wall clock) is in whole seconds.    *)
(***************************************************************************)
EXTENDS Integers, Sequences, FiniteSets, TLC

\* ---------------------------------------------------------------- configuration
MEDIAN_WINDOW == 7
\* EMA_ALPHA = 0.20 is 1 / EMA_ALPHA_INV
EMA_ALPHA_INV == 5
MAX_JUMP == 80
STALE_TIMEOUT_S == 10
OOO_SLACK_S == 1
RESIDUAL_WINDOW == 20
NOISY_RESIDUAL_THRESH == 60
NOISY_PERSIST_S == 3
SPIKE_CLAMP_WINDOW == 30
SPIKE_CLAMP_THRESH == 3
MOISTURE_DRY == 350
MOISTURE_OVERWATER == 650
HEALTH_SUMMARY_INTERVAL_S == 5
\* res_var / 500.0 in the noise score
NOISE_NORM == 500

\* cents per moisture unit: round(x, 2)
CENT == 100
\* sub-cent resolution of the EMA accumulator: 5^6
EmaResolution == EMA_ALPHA_INV * EMA_ALPHA_INV * EMA_ALPHA_INV * EMA_ALPHA_INV * EMA_ALPHA_INV * EMA_ALPHA_INV

\* ---------------------------------------------------------------- bounds
\* the wall clock at start
StartNow == 10
\* Spec: on_message calls, and seconds the clock runs
MaxMsgs == 3
MaxElapsed == 1
\* SpecStream: samples of the scripted stream, and seconds the clock runs
StreamLen == 7
StreamElapsed == 4
\* SpecBurst: samples of the scripted burst
BurstLen == 32
\* SpecStream, SpecBurst, SpecMon: late packets a sensor's stream may carry
MaxLate == 1
\* SpecMon: samples of each sensor's stream, and monitor periods the clock runs
MonLen == 3
MonPeriods == 2
\* SpecHealth: samples of the jumping stream, and seconds the clock runs
HealthLen == 8
HealthElapsed == 3
\* SpecStatus: samples of the stream around the thresholds
StatusLen == 3
\* SpecFault: on_message calls
MaxFaultMsgs == 2
\* SpecConc: callback threads, and calls they make
NThreads == 2
MaxConcMsgs == 3
\* SpecHub: datagrams the hub receives
HubPackets == 3
\* SpecSim: --num-sensors, and the command messages that arrive
NumSensors == 2
SimCommands == 3

\* ---------------------------------------------------------------- values
\* Python's None, and a set value, as a sequence of length 0 or 1
None == <<>>
Some(v) == <<v>>
IsSet(o) == o # <<>>
Val(o) == o[1]

Abs(x) == IF x < 0 THEN -x ELSE x
Min2(a, b) == IF a < b THEN a ELSE b
Max2(a, b) == IF a > b THEN a ELSE b

\* round half to even of the rational num / den (den > 0, num >= 0)
RoundDiv(num, den) ==
    LET q == num \div den
        r == num % den
    IN  IF 2 * r < den THEN q
        ELSE IF 2 * r > den THEN q + 1
        ELSE IF q % 2 = 0 THEN q ELSE q + 1

\* a deque built without maxlen: nothing is ever evicted
deque_append_unbounded(buf, x, maxlen) == Append(buf, x)

\* collections.deque(maxlen=n).append(x): push, evicting the oldest when full
deque_append(buf, x, maxlen) ==
    IF Len(buf) < maxlen THEN Append(buf, x) ELSE Append(Tail(buf), x)

RECURSIVE InsertSorted(_, _)
InsertSorted(s, x) ==
    IF s = <<>> THEN <<x>>
    ELSE IF x <= Head(s) THEN <<x>> \o s
    ELSE <<Head(s)>> \o InsertSorted(Tail(s), x)

RECURSIVE sorted(_)
sorted(s) == IF s = <<>> THEN <<>> ELSE InsertSorted(sorted(Tail(s)), Head(s))

\* statistics.median_low: the lower middle element at an even length
median_low(buf) ==
    LET s == sorted(buf)
    IN  s[(Len(s) + 1) \div 2] * CENT

\* statistics.median of a buffer of raw units, in cents: the middle element of the
\* sorted data, or the mean of the two middle elements when the length is even
median(buf) ==
    LET s == sorted(buf)
        n == Len(s)
    IN  IF n % 2 = 1 THEN s[(n + 1) \div 2] * CENT
        ELSE (s[n \div 2] + s[n \div 2 + 1]) * (CENT \div 2)

\* math.copysign(mag, x) for x # 0 (the clamp calls it only with |x| > MAX_JUMP)
copysign(mag, x) == IF x < 0 THEN -mag ELSE mag

\* a clamp that ignores the sign of the jump
sanity_clamp_unsigned(med, last_filtered) ==
    IF IsSet(last_filtered) /\ Abs(med - Val(last_filtered)) > MAX_JUMP * CENT
    THEN [value |-> Val(last_filtered) + MAX_JUMP * CENT, clamped |-> TRUE]
    ELSE [value |-> med, clamped |-> FALSE]

\* the sanity clamp: the value handed to the smoothing stage and the clamp decision.
\* med and last_filtered are in cents
sanity_clamp(med, last_filtered) ==
    IF IsSet(last_filtered) /\ Abs(med - Val(last_filtered)) > MAX_JUMP * CENT
    THEN [value |-> Val(last_filtered) + copysign(MAX_JUMP * CENT, med - Val(last_filtered)),
          clamped |-> TRUE]
    ELSE [value |-> med, clamped |-> FALSE]

\* nearest whole number of x / den for any integer x (den odd: no ties)
NearestDiv(x, den) ==
    IF x >= 0 THEN (2 * x + den) \div (2 * den) ELSE -((2 * (-x) + den) \div (2 * den))

\* a smoothing stage that takes the new value whole (alpha = 1)
ema_update_unsmoothed(median_val, ema) == Some(median_val * EmaResolution)

\* the EMA step: EMA_ALPHA * median_val + (1 - EMA_ALPHA) * ema, written as
\* ema + EMA_ALPHA * (median_val - ema); median_val in cents, ema in fine units
ema_update(median_val, ema) ==
    IF ~IsSet(ema) THEN Some(median_val * EmaResolution)
    ELSE Some(Val(ema) + NearestDiv(median_val * EmaResolution - Val(ema), EMA_ALPHA_INV))

\* round(self.ema, 2): the nearest cent of a non-negative accumulator
\* (EmaResolution is odd: no ties)
round2(ema) ==
    IF 2 * (ema % EmaResolution) > EmaResolution
    THEN ema \div EmaResolution + 1
    ELSE ema \div EmaResolution

\* ---- residual variance
\* statistics.variance(buf) = Q / (n (n - 1)) with Q the sum over the pairs i < j of
\* (x_i - x_j)^2.  Q is summed saturating at cap, which is all a comparison with a
\* threshold below cap needs; a single difference of DIFF_SAT cents or more
\* already saturates it.
DIFF_SAT == 46000

PairSq(a, b, cap) ==
    LET d == Abs(a - b)
    IN  IF d >= DIFF_SAT THEN cap ELSE Min2(d * d, cap)

SatAdd(a, b, cap) == IF a >= cap - b THEN cap ELSE a + b

RECURSIVE SumWith(_, _, _, _)
\* the saturating sum of (x - buf[k])^2 for k in 1..i
SumWith(buf, x, i, cap) ==
    IF i = 0 THEN 0
    ELSE SatAdd(SumWith(buf, x, i - 1, cap), PairSq(buf[i], x, cap), cap)

RECURSIVE PairSum(_, _, _)
\* the saturating sum of (buf[k] - buf[j])^2 for k < j <= i
PairSum(buf, i, cap) ==
    IF i <= 1 THEN 0
    ELSE SatAdd(PairSum(buf, i - 1, cap), SumWith(buf, buf[i], i - 1, cap), cap)

\* n (n - 1) * CENT^2: a variance of v units^2 is Q = v * VarDen(n) cents^2
VarDen(n) == n * (n - 1) * CENT * CENT

\* Q of a residual buffer, saturating where the noise score does (at NOISE_NORM)
residual_q(buf) == PairSum(buf, Len(buf), NOISE_NORM * VarDen(Len(buf)))

\* statistics.variance(buf) > thresh, for thresh < NOISE_NORM, from Q
variance_exceeds(q, n, thresh) == q > thresh * VarDen(n)

\* round(min(res_var / 500.0, 1.0), 3), in thousandths, from Q
noise_score_of(q, n) ==
    IF q >= NOISE_NORM * VarDen(n) THEN 1000
    ELSE RoundDiv(q, (NOISE_NORM * VarDen(n)) \div 1000)

\* ---------------------------------------------------------------- SensorState
\* a pipeline constructed with its last filtered value already at 0
NewSensorState_seeded(sensor_id) ==
    [sensor_id |-> sensor_id,
     raw_buffer |-> <<>>,
     residual_buffer |-> <<>>,
     clamp_history |-> <<>>,
     ema |-> None,
     last_filtered |-> Some(0),
     last_ts |-> 0,
     total_received |-> 0,
     total_ooo_dropped |-> 0,
     noisy_since |-> 0,
     is_noisy |-> FALSE]

\* SensorState.__init__
NewSensorState(sensor_id) ==
    [sensor_id |-> sensor_id,
     raw_buffer |-> <<>>,
     residual_buffer |-> <<>>,
     clamp_history |-> <<>>,
     ema |-> None,
     last_filtered |-> None,
     last_ts |-> 0,
     total_received |-> 0,
     total_ooo_dropped |-> 0,
     noisy_since |-> 0,
     is_noisy |-> FALSE]

\* a guard that also turns away a packet exactly OOO_SLACK_S behind
accepts_inclusive(st, ts) == ~(st.last_ts > 0 /\ ts <= st.last_ts - OOO_SLACK_S)

\* SensorState.try_accept: the verdict, and the state it leaves
accepts(st, ts) == ~(st.last_ts > 0 /\ ts < st.last_ts - OOO_SLACK_S)

\* a rejection that is not counted
try_accept_silent(st, ts) == st

\* a rejection that also counts the packet as received
try_accept_counting(st, ts) ==
    IF accepts(st, ts) THEN st
    ELSE [st EXCEPT !.total_ooo_dropped = @ + 1, !.total_received = @ + 1]

try_accept(st, ts) ==
    IF accepts(st, ts) THEN st
    ELSE [st EXCEPT !.total_ooo_dropped = @ + 1]

\* res_var > NOISY_RESIDUAL_THRESH in process, where res_var is 0.0 below 3
\* residuals; q is the buffer's Q
res_var_exceeds(residual_buffer, q) ==
    /\ Len(residual_buffer) >= 3
    /\ variance_exceeds(q, Len(residual_buffer), NOISY_RESIDUAL_THRESH)

noise_score(residual_buffer, q) ==
    IF Len(residual_buffer) >= 3 THEN noise_score_of(q, Len(residual_buffer)) ELSE 0

\* a debounce that wants more than NOISY_PERSIST_S
noisy_update_strict(exceeds, noisy_since, is_noisy, t) ==
    IF exceeds
    THEN LET since == IF noisy_since = 0 THEN t ELSE noisy_since
         IN  [noisy_since |-> since,
              is_noisy |-> IF t - since > NOISY_PERSIST_S THEN TRUE ELSE is_noisy]
    ELSE [noisy_since |-> 0, is_noisy |-> FALSE]

\* a watermark that follows the latest accepted packet
watermark_latest(last_ts, ts) == ts

\* a watermark that keeps the first accepted timestamp
watermark_first(last_ts, ts) == IF last_ts > 0 THEN last_ts ELSE Max2(last_ts, ts)

\* self.last_ts = max(self.last_ts, ts)
watermark(last_ts, ts) == Max2(last_ts, ts)

\* NOISY with persistence: the new (noisy_since, is_noisy)
noisy_update(exceeds, noisy_since, is_noisy, t) ==
    IF exceeds
    THEN LET since == IF noisy_since = 0 THEN t ELSE noisy_since
         IN  [noisy_since |-> since,
              is_noisy |-> IF t - since >= NOISY_PERSIST_S THEN TRUE ELSE is_noisy]
    ELSE [noisy_since |-> 0, is_noisy |-> FALSE]

RECURSIVE SeqSum(_)
SeqSum(s) == IF s = <<>> THEN 0 ELSE Head(s) + SeqSum(Tail(s))

\* SPIKY only above the threshold
is_spiky_strict(clamp_history) == SeqSum(clamp_history) > SPIKE_CLAMP_THRESH

\* sum(clamp_history) >= SPIKE_CLAMP_THRESH
is_spiky(clamp_history) == SeqSum(clamp_history) >= SPIKE_CLAMP_THRESH

\* the health labels of a reading, in the order the code appends them
health_labels(is_noisy, clamp_history) ==
    LET h == (IF is_noisy THEN <<"NOISY">> ELSE <<>>)
             \o (IF is_spiky(clamp_history) THEN <<"SPIKY">> ELSE <<>>)
    IN  IF h = <<>> THEN <<"OK">> ELSE h

\* a classification that takes the thresholds themselves as DRY and OVERWATER
classify_inclusive(filtered) ==
    IF filtered <= MOISTURE_DRY * CENT THEN "DRY"
    ELSE IF filtered >= MOISTURE_OVERWATER * CENT THEN "OVERWATER"
    ELSE "OK"

\* status classification of a filtered value in cents
classify(filtered) ==
    IF filtered < MOISTURE_DRY * CENT THEN "DRY"
    ELSE IF filtered > MOISTURE_OVERWATER * CENT THEN "OVERWATER"
    ELSE "OK"

\* SensorState.process at wall-clock time t: the state it leaves, the reading it
\* returns, and the value it handed to the smoothing stage
process(st, raw, ts, t) ==
    LET raw_buffer == deque_append(st.raw_buffer, raw, MEDIAN_WINDOW)
        med == median(raw_buffer)
        cl == sanity_clamp(med, st.last_filtered)
        clamp_history == deque_append(st.clamp_history, IF cl.clamped THEN 1 ELSE 0,
                                      SPIKE_CLAMP_WINDOW)
        ema == ema_update(cl.value, st.ema)
        filtered == round2(Val(ema))
        residual == raw * CENT - filtered
        residual_buffer == deque_append(st.residual_buffer, residual, RESIDUAL_WINDOW)
        q == IF Len(residual_buffer) >= 3 THEN residual_q(residual_buffer) ELSE 0
        exceeds == res_var_exceeds(residual_buffer, q)
        nz == noisy_update(exceeds, st.noisy_since, st.is_noisy, t)
    IN  [st |-> [sensor_id |-> st.sensor_id,
                 raw_buffer |-> raw_buffer,
                 residual_buffer |-> residual_buffer,
                 clamp_history |-> clamp_history,
                 ema |-> ema,
                 last_filtered |-> Some(filtered),
                 last_ts |-> watermark(st.last_ts, ts),
                 total_received |-> st.total_received + 1,
                 total_ooo_dropped |-> st.total_ooo_dropped,
                 noisy_since |-> nz.noisy_since,
                 is_noisy |-> nz.is_noisy],
         result |-> [sensor_id |-> st.sensor_id,
                     ts |-> ts,
                     raw |-> raw,
                     median |-> cl.value,
                     filtered |-> filtered,
                     status |-> classify(filtered),
                     health |-> health_labels(nz.is_noisy, clamp_history),
                     noise_score |-> noise_score(residual_buffer, q)],
         window_median |-> med,
         smoothed_input |-> cl.value,
         res_var_high |-> exceeds]

\* ---------------------------------------------------------------- inputs
SensorIds == {"zone00", "zone01"}
\* the id on_message gives a payload that carries none
UNKNOWN_ID == "unknown"
AllIds == SensorIds \cup {UNKNOWN_ID}
RawValues == {300, 500, 900}
\* sender timestamps; payload.get takes any JSON number, a negative one included
TsValues == {-1, 1, 2, 3}

\* a decoded JSON object with its three fields, each present or not
Payload(sensor_id, moisture_raw, ts) ==
    [kind |-> "object", sensor_id |-> sensor_id, moisture_raw |-> moisture_raw, ts |-> ts]

\* every reading of one sensor, and two readings of a second one
WellFormed ==
    {Payload(Some("zone00"), Some(r), Some(t)) : r \in RawValues, t \in TsValues}
    \cup {Payload(Some("zone01"), Some(500), Some(t)) : t \in {1, 3}}

\* one payload of each malformed shape the callback tests for
Malformed ==
    {[kind |-> "undecodable", sensor_id |-> None, moisture_raw |-> None, ts |-> None],
     Payload(Some("zone00"), None, Some(2)),
     Payload(None, Some(500), Some(2)),
     Payload(Some("zone00"), Some(500), None)}

Messages == WellFormed \cup Malformed

\* payloads that decode but are not what the callback expects: valid JSON that is not
\* an object (kind "array"), and objects whose moisture_raw or ts is a string float()
\* cannot parse (kinds "object_text_raw", "object_text_ts": the slot of the text field
\* holds a placeholder)
Faulty ==
    {[kind |-> "array", sensor_id |-> None, moisture_raw |-> None, ts |-> None]}
    \cup {[kind |-> "object_text_raw", sensor_id |-> Some(s), moisture_raw |-> Some(0),
            ts |-> Some(t)] : s \in SensorIds, t \in {1, 3}}
    \cup {[kind |-> "object_text_ts", sensor_id |-> Some("zone01"),
            moisture_raw |-> Some(500), ts |-> Some(0)]}

\* the raw values a simulated sensor sends, in order, repeated
Script == <<500, 515, 500, 515, 500, 500, 900, 900, 300>>
ScriptRaw(k) == Script[((k - 1) % Len(Script)) + 1]
\* the raw values of a sensor that jumps between dry and soaked
JumpScript == <<500, 900, 500, 900, 900, 300>>
JumpRaw(k) == JumpScript[((k - 1) % Len(JumpScript)) + 1]
\* raw values at and on either side of the two status thresholds
BoundaryRaws == {MOISTURE_DRY - 1, MOISTURE_DRY, MOISTURE_DRY + 1,
                 MOISTURE_OVERWATER - 1, MOISTURE_OVERWATER, MOISTURE_OVERWATER + 1}
\* seconds a packet of the stream spends in transit: 2 is beyond the slack
Delays == {0, 1, 2}

Threads == 1..NThreads
\* first-sight readings the concurrent callbacks are given
ConcMessages ==
    {Payload(Some(s), Some(500), Some(t)) : s \in SensorIds, t \in {2, 3}}

\* ---------------------------------------------------------------- the hub (src/mac/hub.py)
\* datagrams: a JSON object with or without a sensor_id, JSON that is not an object,
\* and bytes that are no JSON at all
HubDatagrams ==
    {[json |-> "object", sensor_id |-> Some("zone00")],
     [json |-> "object", sensor_id |-> None],
     [json |-> "array", sensor_id |-> None],
     [json |-> "invalid", sensor_id |-> None]}

\* json.loads(raw) and msg.get("sensor_id", "unknown"): json.loads raises on bytes that
\* are not JSON, msg.get raises AttributeError on a list
hub_sensor_id(raw) ==
    IF raw.json = "object"
    THEN [ok |-> TRUE, sensor_id |-> IF IsSet(raw.sensor_id) THEN Val(raw.sensor_id) ELSE UNKNOWN_ID]
    ELSE [ok |-> FALSE, sensor_id |-> UNKNOWN_ID]

\* stats.get("pub_fail", 0): the key is absent until the first failed publish
stats_get_pub_fail(stats) == IF IsSet(stats.pub_fail) THEN Val(stats.pub_fail) ELSE 0

\* a call of _do_publish, on a Timer thread or (inline) on the main thread:
\* "armed", "load_forwarded", "store_forwarded", "load_pub_fail", "store_pub_fail", "done"
HubCall(raw, inline) == [raw |-> raw, inline |-> inline, pc |-> "armed", tmp |-> 0, outcome |-> "none"]

HubInit ==
    [stats |-> [received |-> 0, forwarded |-> 0, dropped |-> 0, ooo |-> 0, pub_fail |-> None],
     connected |-> FALSE,
     calls |-> <<>>,
     wire |-> [s \in AllIds |-> 0]]

\* ---------------------------------------------------------------- the simulator (src/mac/sensor_sim.py)
\* f"zone{i:02d}"
ZoneId(i) == "zone" \o (IF i < 10 THEN "0" \o ToString(i) ELSE ToString(i))

\* a VirtualSensor, by its sensor_id and the kind of value its baseline is
VirtualSensor(sensor_id, baseline) == [sensor_id |-> sensor_id, baseline |-> baseline]

\* the name of a sensor's thread
ThreadName(sensor_id) == "sensor-" \o sensor_id

CREATE_TOPIC == "irrigation/command/create"
SimTopics == {CREATE_TOPIC, "irrigation/command/reset"}

\* command payloads: undecodable bytes; JSON that is not an object; objects whose
\* sensor_id is absent, empty, a name (of a start-up sensor, the second generated
\* id, a new one) or a JSON list; an object whose baseline is text
SimPayloads ==
    {[json |-> "invalid", sensor_id |-> None, baseline |-> "absent"],
     [json |-> "array", sensor_id |-> None, baseline |-> "absent"],
     [json |-> "object_list_id", sensor_id |-> None, baseline |-> "absent"]}
    \cup {[json |-> "object", sensor_id |-> i, baseline |-> b] :
              i \in {None, Some(""), Some(ZoneId(0)), Some(ZoneId(NumSensors + 1)), Some("east")},
              b \in {"absent", "number"}}
    \cup {[json |-> "object", sensor_id |-> Some("east"), baseline |-> "text"]}

SimMessages == [topic : SimTopics, payload : SimPayloads]

NoCommand == [topic |-> "", payload |-> [json |-> "invalid", sensor_id |-> None, baseline |-> "absent"],
              handled |-> FALSE, sensors |-> <<>>, threads |-> <<>>, next_sensor_idx |-> 0]

\* main up to the command channel: the start-up sensors and their threads
SimInit ==
    [sensors |-> [i \in 1..NumSensors |-> VirtualSensor(ZoneId(i - 1), "number")],
     threads |-> [i \in 1..NumSensors |-> ThreadName(ZoneId(i - 1))],
     next_sensor_idx |-> NumSensors,
     cmd |-> "running",
     ncmds |-> 0,
     last |-> NoCommand]

\* ---------------------------------------------------------------- state
VARIABLES
    now,        \* time.time(): the wall clock
    heap,       \* the SensorState objects ever constructed, by object number
    sensors,    \* the registry dict: <<[sid, obj]>> in insertion order
    published,  \* client.publish calls so far, counted per sensor id of the topic
    last,       \* the last on_message call: its payload, verdict and effects
    routed,     \* per sensor id, the calls that reached try_accept
    aux,        \* per object: the greatest accepted timestamp, the current noisy run
    nmsgs,      \* on_message calls so far
    mon,        \* the monitor thread
    thr,        \* callback invocations in flight (SpecConc)
    main,       \* the main thread: "running" loop_forever, "stopping", "exited"
    hub,        \* the hub process: its stats dict, forwarder and publish threads
    sim         \* the sensor simulator: its sensors and threads lists, command thread

vars == <<now, heap, sensors, published, last, routed, aux, nmsgs, mon, thr, main, hub, sim>>

\* ---------------------------------------------------------------- the registry dict
dict_has(d, k) == \E i \in 1..Len(d) : d[i].sid = k
\* a lookup that returns the first sensor's pipeline whatever the key
dict_get_first(d, k) == d[1].obj

dict_get(d, k) == d[CHOOSE i \in 1..Len(d) : d[i].sid = k].obj
dict_set(d, k, v) ==
    IF dict_has(d, k)
    THEN [i \in 1..Len(d) |-> IF d[i].sid = k THEN [sid |-> k, obj |-> v] ELSE d[i]]
    ELSE Append(d, [sid |-> k, obj |-> v])
dict_keys(d) == {d[i].sid : i \in 1..Len(d)}

\* the pipeline registered for a sensor id
Pipeline(sid) == heap[dict_get(sensors, sid)]
Registered == dict_keys(sensors)

\* one output topic shared by every sensor
out_topic_shared(sensor_id) == <<"irrigation", "processed", "all">>

\* f"irrigation/processed/{sensor_id}", by topic level
out_topic(sensor_id) == <<"irrigation", "processed", sensor_id>>

\* ---------------------------------------------------------------- on_message
\* json.loads and the three payload.get calls, at wall-clock time t
decode(msg, t) ==
    IF msg.kind \in {"undecodable", "array"}
    THEN [ok |-> FALSE, sensor_id |-> UNKNOWN_ID, raw |-> 0, ts |-> 0]
    ELSE [ok |-> IsSet(msg.moisture_raw),
          sensor_id |-> IF IsSet(msg.sensor_id) THEN Val(msg.sensor_id) ELSE UNKNOWN_ID,
          raw |-> IF IsSet(msg.moisture_raw) THEN Val(msg.moisture_raw) ELSE 0,
          ts |-> IF IsSet(msg.ts) THEN Val(msg.ts) ELSE t]

NewAux == [max_accepted |-> None, hot_since |-> None, sampled_at |-> 0]

\* get-or-create: the heap, its ghost and the dict after `if sensor_id not in sensors:
\* sensors[sensor_id] = SensorState(sensor_id)`
get_or_create(h, a, d, sensor_id) ==
    IF dict_has(d, sensor_id)
    THEN [heap |-> h, aux |-> a, sensors |-> d]
    ELSE [heap |-> Append(h, NewSensorState(sensor_id)),
          aux |-> Append(a, NewAux),
          sensors |-> dict_set(d, sensor_id, Len(h) + 1)]

\* the ghost of an object after an accepted sample taken at wall-clock time t, whose
\* residual variance was above the threshold (high) or not
aux_accept(a, high, ts, t) ==
    [max_accepted |-> IF IsSet(a.max_accepted) THEN Some(Max2(Val(a.max_accepted), ts))
                      ELSE Some(ts),
     hot_since |-> IF high
                   THEN (IF IsSet(a.hot_since) THEN a.hot_since ELSE Some(t))
                   ELSE None,
     sampled_at |-> t]

\* the record of a call that returned before try_accept
DroppedCall(msg) ==
    [msg |-> msg, verdict |-> "dropped", sensor_id |-> UNKNOWN_ID, obj |-> 0,
     raw |-> 0, ts |-> 0, before |-> None, result |-> None, pub |-> None,
     window_median |-> 0, smoothed_input |-> 0, run |-> 0, base |-> None]

\* the record of a call that ended in an uncaught exception, on object obj if it had
\* looked one up
RaisedCall(msg, sensor_id, obj, before) ==
    [msg |-> msg, verdict |-> "raised", sensor_id |-> sensor_id, obj |-> obj,
     raw |-> 0, ts |-> 0, before |-> before, result |-> None, pub |-> None,
     window_median |-> 0, smoothed_input |-> 0, run |-> 0, base |-> None]

\* try_accept, process and publish on object obj of heap h (ghost a), at wall-clock
\* time t: lines 230-241 of on_message
deliver(msg, d, h, a, obj, t) ==
    LET st == h[obj]
        same == /\ last.verdict = "rejected" /\ last.obj = obj
                /\ last.raw = d.raw /\ last.ts = d.ts
    IN  IF ~accepts(st, d.ts)
        THEN /\ heap' = [h EXCEPT ![obj] = try_accept(st, d.ts)]
             /\ aux' = a
             /\ last' = [msg |-> msg, verdict |-> "rejected", sensor_id |-> d.sensor_id,
                         obj |-> obj, raw |-> d.raw, ts |-> d.ts,
                         before |-> Some(st), result |-> None, pub |-> None,
                         window_median |-> 0, smoothed_input |-> 0,
                         run |-> IF same THEN last.run + 1 ELSE 1,
                         base |-> IF same THEN last.base ELSE Some(st)]
             /\ UNCHANGED published
        ELSE IF msg.kind = "object_text_raw"
        \* float(raw) raises ValueError after try_accept returned True
        THEN /\ heap' = h
             /\ aux' = a
             /\ last' = RaisedCall(msg, d.sensor_id, obj, Some(st))
             /\ UNCHANGED published
        ELSE LET p == process(try_accept(st, d.ts), d.raw, d.ts, t)
             IN  /\ heap' = [h EXCEPT ![obj] = p.st]
                 /\ aux' = [a EXCEPT ![obj] = aux_accept(@, p.res_var_high, d.ts, t)]
                 /\ published' = [published EXCEPT ![d.sensor_id] = @ + 1]
                 /\ last' = [msg |-> msg, verdict |-> "accepted", sensor_id |-> d.sensor_id,
                             obj |-> obj, raw |-> d.raw, ts |-> d.ts,
                             before |-> Some(st), result |-> Some(p.result),
                             pub |-> Some([topic |-> out_topic(d.sensor_id),
                                           payload |-> p.result]),
                             window_median |-> p.window_median,
                             smoothed_input |-> p.smoothed_input,
                             run |-> 0, base |-> None]

\* one whole call of on_message, as the network loop makes it: one at a time
on_message(msg) ==
    LET d == decode(msg, now)
    IN  /\ nmsgs' = nmsgs + 1
        /\ IF msg.kind = "array"
           \* payload.get raises AttributeError
           THEN /\ last' = RaisedCall(msg, UNKNOWN_ID, 0, None)
                /\ UNCHANGED <<heap, aux, sensors, published, routed>>
           ELSE IF ~d.ok
           THEN /\ last' = DroppedCall(msg)
                /\ UNCHANGED <<heap, aux, sensors, published, routed>>
           ELSE LET g == get_or_create(heap, aux, sensors, d.sensor_id)
                    obj == dict_get(g.sensors, d.sensor_id)
                IN  /\ sensors' = g.sensors
                    /\ IF msg.kind = "object_text_ts"
                       \* float(ts) raises ValueError before try_accept is called
                       THEN /\ heap' = g.heap
                            /\ aux' = g.aux
                            /\ last' = RaisedCall(msg, d.sensor_id, obj, Some(g.heap[obj]))
                            /\ UNCHANGED <<published, routed>>
                       ELSE /\ routed' = [routed EXCEPT ![d.sensor_id] = @ + 1]
                            /\ deliver(msg, d, g.heap, g.aux, obj, now)

\* ---------------------------------------------------------------- the monitor thread
\* monitor_loop asleep until wake_at
MonSleep(wake_at) ==
    [pc |-> "sleep", wake_at |-> wake_at, t |-> 0,
     it_used |-> 0, it_pos |-> 0, snap |-> {}, visited |-> <<>>,
     warned |-> {}, ok |-> 0, noisy |-> 0, spiky |-> 0, stale |-> 0, scores |-> <<>>,
     var_mark |-> 0, stale_pass |-> None, summary_pass |-> None, dashboard |-> None]

\* `while not stop.is_set()`: asleep again until wake_at, or out of the loop once
\* main has set stop
MonLoop(wake_at) ==
    IF main = "running" THEN MonSleep(wake_at)
    ELSE [MonSleep(wake_at) EXCEPT !.pc = "exited"]

\* a dict or deque iterator's RuntimeError is not caught: the thread ends
MonDead(m) == [m EXCEPT !.pc = "dead"]

\* a stale test that also fires at a gap of exactly STALE_TIMEOUT_S
is_stale_inclusive(st, t) == st.last_ts > 0 /\ t - st.last_ts >= STALE_TIMEOUT_S

\* the stale test check_stale and print_health_summary both make, at their time t
is_stale(st, t) == st.last_ts > 0 /\ t - st.last_ts > STALE_TIMEOUT_S

\* time.sleep returns; check_stale reads the clock and starts iterating sensors.items()
MonWake ==
    /\ mon.pc = "sleep"
    /\ now >= mon.wake_at
    /\ mon' = [MonSleep(mon.wake_at) EXCEPT
                 !.pc = "stale", !.t = now,
                 !.it_used = Len(sensors), !.it_pos = 0,
                 !.snap = Registered, !.visited = <<>>]
    /\ UNCHANGED <<now, heap, sensors, published, last, routed, aux, nmsgs, thr, main, hub, sim>>

\* one step of check_stale's loop: the iterator's size check, then the next item or the
\* end, at which print_health_summary starts (or returns at once on an empty dict)
MonStaleStep ==
    /\ mon.pc = "stale"
    /\ IF Len(sensors) # mon.it_used
       THEN mon' = MonDead(mon)
       ELSE IF mon.it_pos < mon.it_used
       THEN LET e == sensors[mon.it_pos + 1]
            IN  mon' = [mon EXCEPT
                          !.it_pos = @ + 1,
                          !.visited = Append(@, e.sid),
                          !.warned = IF is_stale(heap[e.obj], mon.t)
                                     THEN @ \cup {e.sid} ELSE @]
       ELSE IF Len(sensors) = 0
       THEN mon' = [MonLoop(now + HEALTH_SUMMARY_INTERVAL_S) EXCEPT
                      !.stale_pass = Some([visited |-> mon.visited, snap |-> mon.snap,
                                           warned |-> mon.warned, t |-> mon.t])]
       ELSE mon' = [mon EXCEPT
                      !.pc = "summary", !.t = now,
                      !.it_used = Len(sensors), !.it_pos = 0,
                      !.snap = Registered, !.visited = <<>>,
                      !.stale_pass = Some([visited |-> mon.visited, snap |-> mon.snap,
                                           warned |-> mon.warned, t |-> mon.t])]
    /\ UNCHANGED <<now, heap, sensors, published, last, routed, aux, nmsgs, thr, main, hub, sim>>

\* one step of print_health_summary's loop: the size check, then the next pipeline is
\* classified; statistics.variance then starts iterating its residual deque
MonSummaryStep ==
    /\ mon.pc = "summary"
    /\ IF Len(sensors) # mon.it_used
       THEN mon' = MonDead(mon)
       ELSE IF mon.it_pos < mon.it_used
       THEN LET e == sensors[mon.it_pos + 1]
                s == heap[e.obj]
                cat == IF is_stale(s, mon.t) THEN "STALE"
                       ELSE IF s.is_noisy THEN "NOISY"
                       ELSE IF is_spiky(s.clamp_history) THEN "SPIKY"
                       ELSE "OK"
                scoring == Len(s.residual_buffer) >= 3
            IN  mon' = [mon EXCEPT
                          !.stale = IF cat = "STALE" THEN @ + 1 ELSE @,
                          !.noisy = IF cat = "NOISY" THEN @ + 1 ELSE @,
                          !.spiky = IF cat = "SPIKY" THEN @ + 1 ELSE @,
                          !.ok = IF cat = "OK" THEN @ + 1 ELSE @,
                          !.visited = Append(@, e.sid),
                          !.pc = IF scoring THEN "variance" ELSE "summary",
                          !.var_mark = IF scoring THEN s.total_received ELSE 0,
                          !.it_pos = IF scoring THEN @ ELSE @ + 1]
       ELSE mon' = [mon EXCEPT
                      !.pc = "print",
                      !.summary_pass = Some([visited |-> mon.visited, snap |-> mon.snap])]
    /\ UNCHANGED <<now, heap, sensors, published, last, routed, aux, nmsgs, thr, main, hub, sim>>

\* statistics.variance ends its pass over the residual deque: a deque appended to
\* meanwhile raises RuntimeError (deque mutated during iteration)
MonVariance ==
    /\ mon.pc = "variance"
    /\ LET e == sensors[mon.it_pos + 1]
       IN  IF heap[e.obj].total_received # mon.var_mark
           THEN mon' = MonDead(mon)
           ELSE mon' = [mon EXCEPT
                          !.pc = "summary", !.it_pos = @ + 1, !.var_mark = 0,
                          !.scores = Append(@, e.sid)]
    /\ UNCHANGED <<now, heap, sensors, published, last, routed, aux, nmsgs, thr, main, hub, sim>>

\* total = len(sensors), the dashboard line, and the loop sleeps again
MonPrint ==
    /\ mon.pc = "print"
    /\ mon' = [MonLoop(now + HEALTH_SUMMARY_INTERVAL_S) EXCEPT
                 !.dashboard = Some([total |-> Len(sensors), ok |-> mon.ok,
                                     noisy |-> mon.noisy, spiky |-> mon.spiky,
                                     stale |-> mon.stale, scored |-> Len(mon.scores)])]
    /\ UNCHANGED <<now, heap, sensors, published, last, routed, aux, nmsgs, thr, main, hub, sim>>

\* ---------------------------------------------------------------- Spec
NoCall ==
    [msg |-> [kind |-> "none", sensor_id |-> None, moisture_raw |-> None, ts |-> None],
     verdict |-> "none", sensor_id |-> UNKNOWN_ID, obj |-> 0,
     raw |-> 0, ts |-> 0, before |-> None, result |-> None, pub |-> None,
     window_median |-> 0, smoothed_input |-> 0, run |-> 0, base |-> None]

ThreadIdle == [pc |-> "idle", msg |-> NoCall.msg, obj |-> 0]

Init ==
    /\ now = StartNow
    /\ heap = <<>>
    /\ aux = <<>>
    /\ sensors = <<>>
    /\ published = [s \in AllIds |-> 0]
    /\ last = NoCall
    /\ routed = [s \in AllIds |-> 0]
    /\ nmsgs = 0
    /\ mon = MonSleep(StartNow + HEALTH_SUMMARY_INTERVAL_S)
    /\ thr = [h \in Threads |-> ThreadIdle]
    /\ main = "running"
    /\ hub = HubInit
    /\ sim = SimInit

\* the wall clock advances by a second
Tick ==
    /\ now < StartNow + MaxElapsed
    /\ now' = now + 1
    /\ UNCHANGED <<heap, sensors, published, last, routed, aux, nmsgs, mon, thr, main, hub, sim>>

\* the broker delivers a payload and the network loop runs the callback on it
OnMessage ==
    /\ nmsgs < MaxMsgs
    /\ \E msg \in Messages : on_message(msg)
    /\ UNCHANGED <<now, mon, thr, main, hub, sim>>

Next == OnMessage \/ Tick

\* the processor fed any payloads, one callback at a time
Spec == Init /\ [][Next]_vars

\* the network loop runs the callback on any payload, until a call raises: the loop
\* re-raises a callback's exception, loop_forever ends with it and main, which catches
\* only KeyboardInterrupt, ends with it too
Dispatch ==
    /\ last.verdict # "raised"
    /\ nmsgs < MaxFaultMsgs
    /\ \E msg \in Messages \cup Faulty : on_message(msg)
    /\ UNCHANGED <<now, mon, thr, main, hub, sim>>

NextFault == Dispatch

\* the processor fed any payloads, faulty ones included
SpecFault == Init /\ [][NextFault]_vars

\* ---------------------------------------------------------------- scripted streams
\* packets of sensor sid's stream rejected so far
Late(sid) == IF dict_has(sensors, sid) THEN Pipeline(sid).total_ooo_dropped ELSE 0

\* sensor sid's next scripted sample arrives after `delay` seconds in transit
Feed(sid, limit, delays) ==
    /\ routed[sid] < limit
    /\ \E delay \in delays :
          /\ delay > OOO_SLACK_S => Late(sid) < MaxLate
          /\ on_message(Payload(Some(sid), Some(ScriptRaw(routed[sid] + 1)),
                                Some(now - delay)))
    /\ UNCHANGED <<now, mon, thr, main, hub, sim>>

StreamMessage == Feed("zone00", StreamLen, Delays)

StreamTick ==
    /\ now < StartNow + StreamElapsed
    /\ now' = now + 1
    /\ UNCHANGED <<heap, sensors, published, last, routed, aux, nmsgs, mon, thr, main, hub, sim>>

NextStream == StreamMessage \/ StreamTick

\* one sensor's scripted stream while the clock runs
SpecStream == Init /\ [][NextStream]_vars

BurstMessage == Feed("zone00", BurstLen, Delays)

NextBurst == BurstMessage

\* one sensor's scripted stream arriving in a burst, within a second
SpecBurst == Init /\ [][NextBurst]_vars

\* the first sensor sends MonLen samples, the second one
MonLimit(sid) == IF sid = "zone00" THEN MonLen ELSE 1

\* and the second sensor's packet is on time, or stamped 0 by a sender with no clock
MonDelays(sid) == IF sid = "zone00" THEN Delays ELSE {0, now}

MonMessage == \E sid \in SensorIds : Feed(sid, MonLimit(sid), MonDelays(sid))

\* the wall clock advances by a monitor period
MonTick ==
    /\ now < StartNow + MonPeriods * HEALTH_SUMMARY_INTERVAL_S
    /\ now' = now + HEALTH_SUMMARY_INTERVAL_S
    /\ UNCHANGED <<heap, sensors, published, last, routed, aux, nmsgs, mon, thr, main, hub, sim>>

NextMon ==
    \/ MonMessage
    \/ MonTick
    \/ MonWake
    \/ MonStaleStep
    \/ MonSummaryStep
    \/ MonVariance
    \/ MonPrint

\* two sensors' streams and the monitor thread
SpecMon == Init /\ [][NextMon]_vars

\* a jumping sensor's next sample arrives on time
HealthMessage ==
    /\ routed["zone01"] < HealthLen
    /\ on_message(Payload(Some("zone01"), Some(JumpRaw(routed["zone01"] + 1)), Some(now)))
    /\ UNCHANGED <<now, mon, thr, main, hub, sim>>

HealthTick ==
    /\ now < StartNow + HealthElapsed
    /\ now' = now + 1
    /\ UNCHANGED <<heap, sensors, published, last, routed, aux, nmsgs, mon, thr, main, hub, sim>>

NextHealth == HealthMessage \/ HealthTick

\* a jumping sensor's stream while the clock runs
SpecHealth == Init /\ [][NextHealth]_vars

\* a sensor near a threshold sends its next sample, on time
StatusMessage ==
    /\ routed["zone01"] < StatusLen
    /\ \E r \in BoundaryRaws : on_message(Payload(Some("zone01"), Some(r), Some(now)))
    /\ UNCHANGED <<now, mon, thr, main, hub, sim>>

NextStatus == StatusMessage

\* a sensor's stream of values around the status thresholds
SpecStatus == Init /\ [][NextStatus]_vars

\* ---------------------------------------------------------------- stopping
\* while main runs the network loop, the sensor's next sample arrives on time
StopMessage ==
    /\ main = "running"
    /\ Feed("zone00", MonLen, {0})

\* KeyboardInterrupt ends loop_forever; main's handler has called stop.set()
Interrupt ==
    /\ main = "running"
    /\ main' = "stopping"
    /\ UNCHANGED <<now, heap, sensors, published, last, routed, aux, nmsgs, mon, thr, hub, sim>>

\* main returns after client.disconnect(): the process ends and takes the daemon
\* monitor thread with it, wherever it is
Exit ==
    /\ main = "stopping"
    /\ main' = "exited"
    /\ mon' = IF mon.pc \in {"exited", "dead"} THEN mon ELSE [mon EXCEPT !.pc = "killed"]
    /\ UNCHANGED <<now, heap, sensors, published, last, routed, aux, nmsgs, thr, hub, sim>>

NextStop ==
    \/ StopMessage
    \/ MonTick
    \/ MonWake
    \/ MonStaleStep
    \/ MonSummaryStep
    \/ MonVariance
    \/ MonPrint
    \/ Interrupt
    \/ Exit

\* one sensor's stream, the monitor thread, and a stop request
SpecStop == Init /\ [][NextStop]_vars

\* ---------------------------------------------------------------- concurrent callbacks
\* on_message run by several threads at once, split where a thread switch can fall
\* between the membership test, the insert, the lookup and the rest
CStart(h) ==
    /\ thr[h].pc = "idle"
    /\ nmsgs < MaxConcMsgs
    /\ \E msg \in ConcMessages :
          thr' = [thr EXCEPT ![h] = [pc |-> "check", msg |-> msg, obj |-> 0]]
    /\ nmsgs' = nmsgs + 1
    /\ UNCHANGED <<now, heap, sensors, published, last, routed, aux, mon, main, hub, sim>>

\* if sensor_id not in sensors
CCheck(h) ==
    /\ thr[h].pc = "check"
    /\ thr' = [thr EXCEPT ![h].pc =
                 IF dict_has(sensors, decode(thr[h].msg, now).sensor_id)
                 THEN "lookup" ELSE "create"]
    /\ UNCHANGED <<now, heap, sensors, published, last, routed, aux, nmsgs, mon, main, hub, sim>>

\* sensors[sensor_id] = SensorState(sensor_id)
CCreate(h) ==
    /\ thr[h].pc = "create"
    /\ heap' = Append(heap, NewSensorState(decode(thr[h].msg, now).sensor_id))
    /\ aux' = Append(aux, NewAux)
    /\ sensors' = dict_set(sensors, decode(thr[h].msg, now).sensor_id, Len(heap) + 1)
    /\ thr' = [thr EXCEPT ![h].pc = "lookup"]
    /\ UNCHANGED <<now, published, last, routed, nmsgs, mon, main, hub, sim>>

\* state = sensors[sensor_id]
CLookup(h) ==
    /\ thr[h].pc = "lookup"
    /\ thr' = [thr EXCEPT ![h].pc = "deliver",
                          ![h].obj = dict_get(sensors, decode(thr[h].msg, now).sensor_id)]
    /\ UNCHANGED <<now, heap, sensors, published, last, routed, aux, nmsgs, mon, main, hub, sim>>

\* try_accept, process, publish
CDeliver(h) ==
    /\ thr[h].pc = "deliver"
    /\ LET d == decode(thr[h].msg, now)
       IN  /\ routed' = [routed EXCEPT ![d.sensor_id] = @ + 1]
           /\ deliver(thr[h].msg, d, heap, aux, thr[h].obj, now)
    /\ thr' = [thr EXCEPT ![h] = ThreadIdle]
    /\ UNCHANGED <<now, sensors, nmsgs, mon, main, hub, sim>>

NextConc ==
    \E h \in Threads : CStart(h) \/ CCheck(h) \/ CCreate(h) \/ CLookup(h) \/ CDeliver(h)

\* the callback invoked from several threads
SpecConc == Init /\ [][NextConc]_vars

\* ---------------------------------------------------------------- the hub
\* MQTTForwarder._on_connect with reason_code 0, on the client's network thread
HubConnect ==
    /\ ~hub.connected
    /\ hub' = [hub EXCEPT !.connected = TRUE]
    /\ UNCHANGED <<now, heap, sensors, published, last, routed, aux, nmsgs, mon, thr, main, sim>>

\* MQTTForwarder._on_disconnect
HubDisconnect ==
    /\ hub.connected
    /\ hub' = [hub EXCEPT !.connected = FALSE]
    /\ UNCHANGED <<now, heap, sensors, published, last, routed, aux, nmsgs, mon, thr, main, sim>>

\* the main thread is inside an inline _do_publish
HubMainBusy == \E i \in 1..Len(hub.calls) : hub.calls[i].inline /\ hub.calls[i].pc # "done"

\* forward_with_impairments up to the point where _do_publish is called or its Timer
\* started: drop is random.random() < DROP_RATE, ooo is random.random() <
\* OOO_PROBABILITY, inline is delay < 0.005 (never after the extra OOO delay)
forward_with_impairments(raw, drop, ooo, inline) ==
    LET s1 == [hub.stats EXCEPT !.received = @ + 1]
    IN  IF drop
        THEN hub' = [hub EXCEPT !.stats = [s1 EXCEPT !.dropped = @ + 1]]
        ELSE hub' = [hub EXCEPT !.stats = IF ooo THEN [s1 EXCEPT !.ooo = @ + 1] ELSE s1,
                                !.calls = Append(@, HubCall(raw, inline /\ ~ooo))]

\* main's loop: recvfrom returns a datagram and forward_with_impairments handles it
HubReceive ==
    /\ hub.stats.received < HubPackets
    /\ ~HubMainBusy
    /\ \E raw \in HubDatagrams, drop \in BOOLEAN, ooo \in BOOLEAN, inline \in BOOLEAN :
           forward_with_impairments(raw, drop, ooo, inline)
    /\ UNCHANGED <<now, heap, sensors, published, last, routed, aux, nmsgs, mon, thr, main, sim>>

\* MQTTForwarder.publish: False when not connected; when connected, whether
\* client.publish returned MQTT_ERR_SUCCESS (sent)
publish(sent) == hub.connected /\ sent

\* _do_publish from its start to the branch on ok: an exception in json.loads or
\* msg.get is caught, printed, and ends the call
HubPublish(i) ==
    /\ hub.calls[i].pc = "armed"
    /\ LET d == hub_sensor_id(hub.calls[i].raw)
       IN  IF ~d.ok
           THEN hub' = [hub EXCEPT !.calls[i].pc = "done", !.calls[i].outcome = "error"]
           ELSE \E sent \in BOOLEAN :
                    LET ok == publish(sent)
                    IN  hub' = [hub EXCEPT
                                  !.wire[d.sensor_id] = IF ok THEN @ + 1 ELSE @,
                                  !.calls[i].pc = IF ok THEN "load_forwarded" ELSE "load_pub_fail",
                                  !.calls[i].outcome = IF ok THEN "forwarded" ELSE "pub_fail"]
    /\ UNCHANGED <<now, heap, sensors, published, last, routed, aux, nmsgs, mon, thr, main, sim>>

\* the read of stats["forwarded"] += 1, or of stats.get("pub_fail", 0)
HubLoad(i) ==
    /\ hub.calls[i].pc \in {"load_forwarded", "load_pub_fail"}
    /\ hub' = IF hub.calls[i].pc = "load_forwarded"
              THEN [hub EXCEPT !.calls[i].tmp = hub.stats.forwarded,
                               !.calls[i].pc = "store_forwarded"]
              ELSE [hub EXCEPT !.calls[i].tmp = stats_get_pub_fail(hub.stats),
                               !.calls[i].pc = "store_pub_fail"]
    /\ UNCHANGED <<now, heap, sensors, published, last, routed, aux, nmsgs, mon, thr, main, sim>>

\* the store of the incremented value read earlier
HubStore(i) ==
    /\ hub.calls[i].pc \in {"store_forwarded", "store_pub_fail"}
    /\ hub' = IF hub.calls[i].pc = "store_forwarded"
              THEN [hub EXCEPT !.stats.forwarded = hub.calls[i].tmp + 1,
                               !.calls[i].pc = "done"]
              ELSE [hub EXCEPT !.stats.pub_fail = Some(hub.calls[i].tmp + 1),
                               !.calls[i].pc = "done"]
    /\ UNCHANGED <<now, heap, sensors, published, last, routed, aux, nmsgs, mon, thr, main, sim>>

NextHub ==
    \/ HubConnect
    \/ HubDisconnect
    \/ HubReceive
    \/ \E i \in 1..Len(hub.calls) : HubPublish(i)
    \/ \E i \in 1..Len(hub.calls) : HubLoad(i)
    \/ \E i \in 1..Len(hub.calls) : HubStore(i)

SpecHub == Init /\ [][NextHub]_vars

\* ---------------------------------------------------------------- the simulator
\* {s.sensor_id for s in sensors}
existing_ids(ss) == {ss[i].sensor_id : i \in 1..Len(ss)}

\* the id a create command names: payload.get("sensor_id"), or when that is absent
\* or empty f"zone{next_sensor_idx:02d}"
create_id(payload, next_sensor_idx) ==
    IF IsSet(payload.sensor_id) /\ Val(payload.sensor_id) # ""
    THEN Val(payload.sensor_id)
    ELSE ZoneId(next_sensor_idx)

\* a membership test that finds nothing
is_duplicate_never(sid, ss) == FALSE

\* `sid in existing_ids`
is_duplicate(sid, ss) == sid \in existing_ids(ss)

\* spawn_sensor: one VirtualSensor appended, its thread started and appended, the
\* index advanced; the closing print formats baseline with :.0f and raises on text
spawn_sensor(s, sensor_id, baseline) ==
    [s EXCEPT !.sensors = Append(@, VirtualSensor(sensor_id, baseline)),
              !.threads = Append(@, ThreadName(sensor_id)),
              !.next_sensor_idx = @ + 1,
              !.cmd = IF baseline = "text" THEN "dead" ELSE @]

\* the command as the callback found things
SimCall(msg, handled) ==
    [topic |-> msg.topic, payload |-> msg.payload, handled |-> handled,
     sensors |-> sim.sensors, threads |-> sim.threads,
     next_sensor_idx |-> sim.next_sensor_idx]

\* the callback on_message of the command channel; an exception it lets out ends the
\* client's network thread, which is the thread that calls it
sim_on_message(s, msg) ==
    IF msg.payload.json = "invalid" THEN s
    ELSE IF msg.topic # CREATE_TOPIC THEN s
    ELSE IF msg.payload.json = "array" THEN [s EXCEPT !.cmd = "dead"]
    ELSE IF msg.payload.json = "object_list_id" THEN [s EXCEPT !.cmd = "dead"]
    ELSE LET sid == create_id(msg.payload, s.next_sensor_idx)
             baseline == IF msg.payload.baseline = "absent" THEN "number"
                         ELSE msg.payload.baseline
         IN  IF is_duplicate(sid, s.sensors) THEN s
             ELSE spawn_sensor(s, sid, baseline)

\* a command message arrives and the network thread calls on_message
SimCommand ==
    /\ sim.ncmds < SimCommands
    /\ sim.cmd = "running"
    /\ \E msg \in SimMessages :
           sim' = [sim_on_message(sim, msg) EXCEPT !.ncmds = sim.ncmds + 1,
                                                  !.last = SimCall(msg, TRUE)]
    /\ UNCHANGED <<now, heap, sensors, published, last, routed, aux, nmsgs, mon, thr, main, hub>>

\* a command message arrives after the network thread has ended: no callback runs
SimUnheard ==
    /\ sim.ncmds < SimCommands
    /\ sim.cmd = "dead"
    /\ \E msg \in SimMessages :
           sim' = [sim EXCEPT !.ncmds = sim.ncmds + 1, !.last = SimCall(msg, FALSE)]
    /\ UNCHANGED <<now, heap, sensors, published, last, routed, aux, nmsgs, mon, thr, main, hub>>

NextSim ==
    \/ SimCommand
    \/ SimUnheard

SpecSim == Init /\ [][NextSim]_vars

\* ================================================================ claims
\* the SensorState objects ever constructed for a sensor id
ObjectsOf(sid) == {o \in 1..Len(heap) : heap[o].sensor_id = sid}
AllIdle == \A h \in Threads : thr[h].pc = "idle"
Objects == 1..Len(heap)
\* the pipeline an on_message call found before it acted (a fresh one if it made it)
PreState(obj, sid) == IF obj <= Len(heap) THEN heap[obj] ELSE NewSensorState(sid)
LastOf(q) == q[Len(q)]

\* C1: however the get-or-create steps of concurrent first-sight callbacks interleave,
\* one pipeline is ever constructed per sensor id, and once the callbacks have
\* returned the registered pipeline has received every sample routed to its id.
C1_OnePipelinePerId ==
    \A sid \in AllIds :
        /\ Cardinality(ObjectsOf(sid)) <= 1
        /\ (AllIdle /\ dict_has(sensors, sid)) =>
              Pipeline(sid).total_received = routed[sid]

\* C2: a monitor sweep always runs to completion - the thread never dies of an
\* iterator's RuntimeError - and a completed pass has visited exactly the sensors
\* registered when its iteration began.
C2_SweepCompletes ==
    /\ mon.pc # "dead"
    /\ IsSet(mon.stale_pass) =>
          {Val(mon.stale_pass).visited[i] : i \in 1..Len(Val(mon.stale_pass).visited)}
             = Val(mon.stale_pass).snap
    /\ IsSet(mon.summary_pass) =>
          {Val(mon.summary_pass).visited[i] : i \in 1..Len(Val(mon.summary_pass).visited)}
             = Val(mon.summary_pass).snap

\* after a push of x, new holds the newest min(Len(old) + 1, cap) entries of old
\* followed by x, in order: the oldest went first
NewestKept(old, x, new, cap) ==
    /\ Len(new) = Min2(Len(old) + 1, cap)
    /\ \A i \in 1..Len(new) : new[i] = Append(old, x)[Len(old) + 1 - Len(new) + i]

\* C3: in every reachable state every pipeline's median window holds at most 7 values,
\* its residual window at most 20 and its clamp history at most 30, and an accepted
\* sample's push keeps the newest entries in order, evicting the oldest first.
C3_WindowsBounded ==
    /\ \A o \in Objects :
          /\ Len(heap[o].raw_buffer) <= MEDIAN_WINDOW
          /\ Len(heap[o].residual_buffer) <= RESIDUAL_WINDOW
          /\ Len(heap[o].clamp_history) <= SPIKE_CLAMP_WINDOW
    /\ last.verdict = "accepted" =>
          LET b == Val(last.before)
              a == heap[last.obj]
          IN  /\ NewestKept(b.raw_buffer, last.raw, a.raw_buffer, MEDIAN_WINDOW)
              /\ NewestKept(b.residual_buffer, last.raw * CENT - Val(a.last_filtered),
                            a.residual_buffer, RESIDUAL_WINDOW)
              /\ NewestKept(b.clamp_history, LastOf(a.clamp_history),
                            a.clamp_history, SPIKE_CLAMP_WINDOW)

\* all three windows are full and have each evicted at least once
C3_Witness ==
    /\ last.verdict = "accepted"
    /\ Len(Val(last.before).clamp_history) = SPIKE_CLAMP_WINDOW
    /\ Len(heap[last.obj].clamp_history) = SPIKE_CLAMP_WINDOW
    /\ Len(heap[last.obj].residual_buffer) = RESIDUAL_WINDOW
    /\ Len(heap[last.obj].raw_buffer) = MEDIAN_WINDOW
    /\ heap[last.obj].raw_buffer # Val(last.before).raw_buffer

\* C4: a call that reaches the guard rejects its sample exactly when the pipeline's
\* last_ts > 0 and ts < last_ts - 1; a rejection returns no reading, publishes nothing
\* and pushes nothing, an acceptance publishes once, and no step other than a call
\* processes or publishes anything (a rejected sample is not processed later).
C4_RejectionRule ==
    [][ /\ (nmsgs' = nmsgs + 1 /\ last'.verdict \in {"accepted", "rejected"}) =>
              LET pre == PreState(last'.obj, last'.sensor_id)
                  post == heap'[last'.obj]
                  beyond == pre.last_ts > 0 /\ last'.ts < pre.last_ts - OOO_SLACK_S
              IN  /\ (last'.verdict = "rejected") <=> beyond
                  /\ last'.verdict = "rejected" =>
                        /\ last'.result = None
                        /\ last'.pub = None
                        /\ published' = published
                        /\ post.total_received = pre.total_received
                        /\ post.raw_buffer = pre.raw_buffer
                        /\ post.total_ooo_dropped = pre.total_ooo_dropped + 1
                  /\ last'.verdict = "accepted" =>
                        /\ IsSet(last'.result)
                        /\ published' =
                              [published EXCEPT ![last'.sensor_id] = @ + 1]
                        /\ post.total_received = pre.total_received + 1
        /\ nmsgs' = nmsgs => (heap' = heap /\ published' = published)
      ]_vars

\* a sample two seconds behind the watermark has been rejected after a publish
C4_Witness ==
    /\ last.verdict = "rejected"
    /\ Val(last.before).last_ts - last.ts = OOO_SLACK_S + 1
    /\ published[last.sensor_id] > 0

\* C5: after the same out-of-order sample has been sent to a pipeline once, twice or
\* more in a row, each send was rejected, the pipeline equals what it was before the
\* first send in every field but total_ooo_dropped, which has grown by the number of
\* sends (by exactly 2 after two), and the sample would be rejected again.
C5_RejectionIdempotent ==
    last.verdict = "rejected" =>
        /\ last.run >= 1
        /\ heap[last.obj] =
              [Val(last.base) EXCEPT !.total_ooo_dropped = @ + last.run]
        /\ Val(last.base).last_ts > 0
        /\ last.ts < Val(last.base).last_ts - OOO_SLACK_S
        /\ ~accepts(heap[last.obj], last.ts)

\* the same out-of-order sample has just been rejected for the second time
C5_Witness ==
    /\ last.verdict = "rejected"
    /\ last.run = 2
    /\ heap[last.obj].total_ooo_dropped = Val(last.base).total_ooo_dropped + 2

\* C6 as claimed: once a pipeline has accepted a sample, its last_ts is the greatest
\* timestamp among its accepted samples.
C6_WatermarkIsMax ==
    \A o \in Objects :
        heap[o].total_received >= 1 => heap[o].last_ts = Val(aux[o].max_accepted)

\* C6 amended: once a pipeline has accepted a sample, its last_ts is the greatest of 0
\* and the timestamps of its accepted samples: the greatest accepted timestamp when
\* that is not negative, and 0 (the "no data yet" value) when every one is negative.
C6_WatermarkIsMaxOrZero ==
    \A o \in Objects :
        /\ heap[o].total_received >= 1 <=> IsSet(aux[o].max_accepted)
        /\ heap[o].total_received >= 1 =>
              heap[o].last_ts = Max2(0, Val(aux[o].max_accepted))

\* a sample older than the watermark, inside the slack, was accepted after a newer one
C6_Witness ==
    /\ last.verdict = "accepted"
    /\ heap[last.obj].total_received >= 2
    /\ last.ts < heap[last.obj].last_ts
    /\ heap[last.obj].last_ts = Val(aux[last.obj].max_accepted)

\* C7: no step - an accepted sample, a rejected sample, a step of the monitor's sweep,
\* a clock tick - lowers a pipeline's last_ts, and an accepted sample whose timestamp
\* is not above the watermark leaves it as it was.
C7_WatermarkMonotone ==
    [][ /\ Len(heap') >= Len(heap)
        /\ \A o \in Objects : heap'[o].last_ts >= heap[o].last_ts
        /\ (/\ nmsgs' = nmsgs + 1
            /\ last'.verdict = "accepted"
            /\ last'.ts <= PreState(last'.obj, last'.sensor_id).last_ts) =>
              heap'[last'.obj].last_ts = PreState(last'.obj, last'.sensor_id).last_ts
      ]_vars

\* the monitor has completed a sweep and a sample inside the slack window, below the
\* watermark, has been accepted
C7_Witness ==
    /\ IsSet(mon.dashboard)
    /\ last.verdict = "accepted"
    /\ last.ts < Val(last.before).last_ts
    /\ heap[last.obj].last_ts = Val(last.before).last_ts

\* C8: with m the median of the window after the push and f the previous filtered
\* value: if f is set and |m - f| > 80 the smoothing stage is handed f + 80 (m > f) or
\* f - 80 (m < f) and a 1 is pushed to clamp_history; otherwise it is handed m and a 0
\* is pushed; one entry is pushed per accepted sample.
C8_ClampRule ==
    last.verdict = "accepted" =>
        LET b == Val(last.before)
            a == heap[last.obj]
            m == median(a.raw_buffer)
            v == last.smoothed_input
            jump == IsSet(b.last_filtered)
                    /\ Abs(m - Val(b.last_filtered)) > MAX_JUMP * CENT
        IN  /\ last.window_median = m
            /\ jump /\ m > Val(b.last_filtered) => v = Val(b.last_filtered) + MAX_JUMP * CENT
            /\ jump /\ m < Val(b.last_filtered) => v = Val(b.last_filtered) - MAX_JUMP * CENT
            /\ ~jump => v = m
            /\ LastOf(a.clamp_history) = (IF jump THEN 1 ELSE 0)
            /\ NewestKept(b.clamp_history, IF jump THEN 1 ELSE 0, a.clamp_history,
                          SPIKE_CLAMP_WINDOW)
            /\ a.ema = ema_update(v, b.ema)
            /\ Val(last.result).median = v

\* last_filtered 500.00 and a window median of 700.00: 580.00 is smoothed, a clamp recorded
C8_Witness ==
    /\ last.verdict = "accepted"
    /\ Val(last.before).last_filtered = Some(500 * CENT)
    /\ last.window_median = 700 * CENT
    /\ last.smoothed_input = 580 * CENT
    /\ LastOf(heap[last.obj].clamp_history) = 1

\* the residual variance of a pipeline's window is above the threshold
ResVarHigh(st) ==
    /\ Len(st.residual_buffer) >= 3
    /\ variance_exceeds(residual_q(st.residual_buffer), Len(st.residual_buffer),
                        NOISY_RESIDUAL_THRESH)

\* C9: after a sample is processed, is_noisy holds exactly when the residual variance
\* has been above 60 on every accepted sample since a sample processed at least 3 s of
\* wall clock before this one (so a run spanning 2 s does not set it and one spanning
\* 3 s or more does); a sample with variance <= 60 clears noisy_since and is_noisy.
C9_NoisyDebounce ==
    \A o \in Objects :
        heap[o].total_received >= 1 =>
            LET hot == aux[o].hot_since
                span == aux[o].sampled_at - Val(hot)
            IN  /\ IsSet(hot) <=> ResVarHigh(heap[o])
                /\ heap[o].is_noisy <=> (IsSet(hot) /\ span >= NOISY_PERSIST_S)
                /\ ~IsSet(hot) => (heap[o].noisy_since = 0 /\ ~heap[o].is_noisy)
                /\ IsSet(hot) => heap[o].noisy_since = Val(hot)

\* a run of above-threshold samples has lasted exactly 3 s and is_noisy is set
C9_Witness ==
    /\ last.verdict = "accepted"
    /\ heap[last.obj].is_noisy
    /\ ~Val(last.before).is_noisy
    /\ aux[last.obj].sampled_at - Val(aux[last.obj].hot_since) = NOISY_PERSIST_S

\* C10: for every accepted sample after a pipeline's first, filtered differs from the
\* previous filtered value by at most EMA_ALPHA * MAX_JUMP = 16 units (a cent of
\* rounding allowed), and a clamp event is recorded whenever the window median was more
\* than 80 from the previous filtered value.
C10_BoundedStep ==
    (last.verdict = "accepted" /\ IsSet(Val(last.before).last_filtered)) =>
        LET f == Val(Val(last.before).last_filtered)
            a == heap[last.obj]
        IN  /\ Abs(Val(last.result).filtered - f)
                  <= (MAX_JUMP * CENT) \div EMA_ALPHA_INV + 1
            /\ Val(a.last_filtered) = Val(last.result).filtered
            /\ Abs(median(a.raw_buffer) - f) > MAX_JUMP * CENT =>
                  LastOf(a.clamp_history) = 1

\* the raw value jumped from 500 to 900: filtered moved by the full 16.00, clamped
C10_Witness ==
    /\ last.verdict = "accepted"
    /\ last.raw = 900
    /\ Val(last.before).last_filtered = Some(500 * CENT)
    /\ Val(last.result).filtered = 516 * CENT
    /\ LastOf(heap[last.obj].clamp_history) = 1

\* C11: fed well-formed messages one at a time, the callback publishes once for each
\* accepted sample and not at all for a rejected one, on irrigation/processed/<id> of
\* the sample's own sensor id, with that id and the sample's ts and raw in the
\* payload; the publishes counted for a sensor equal its pipeline's total_received.
C11_OnePublishPerAccepted ==
    /\ \A sid \in AllIds :
          published[sid] =
              (IF dict_has(sensors, sid) THEN Pipeline(sid).total_received ELSE 0)
    /\ (last.verdict = "accepted" /\ last.msg \in WellFormed) =>
          /\ IsSet(last.pub)
          /\ Val(last.pub).topic = <<"irrigation", "processed", Val(last.msg.sensor_id)>>
          /\ Val(last.pub).payload.sensor_id = Val(last.msg.sensor_id)
          /\ Val(last.pub).payload.ts = Val(last.msg.ts)
          /\ Val(last.pub).payload.raw = Val(last.msg.moisture_raw)
          /\ Val(last.pub).payload = Val(last.result)
    /\ last.verdict \in {"rejected", "dropped"} => last.pub = None

\* a second sensor's sample is published on its own topic after the first sensor had
\* one sample accepted and one rejected
C11_Witness ==
    /\ last.verdict = "accepted"
    /\ last.msg.sensor_id = Some("zone01")
    /\ Val(last.pub).topic = <<"irrigation", "processed", "zone01">>
    /\ routed["zone00"] = 2
    /\ published["zone00"] = 1
    /\ published["zone01"] = 1

\* a JSON object that lacks sensor_id, moisture_raw or ts
MissingField(msg) ==
    /\ msg.kind = "object"
    /\ (~IsSet(msg.sensor_id) \/ ~IsSet(msg.moisture_raw) \/ ~IsSet(msg.ts))

\* C12: a call given an object that lacks sensor_id, moisture_raw or ts is dropped: it
\* adds no registry entry, changes no pipeline and publishes nothing.
C12_MissingFieldDropped ==
    [][ (nmsgs' = nmsgs + 1 /\ MissingField(last'.msg)) =>
            /\ last'.verdict = "dropped"
            /\ sensors' = sensors
            /\ heap' = heap
            /\ published' = published
      ]_vars

\* a payload that is undecodable, not an object, or has a non-numeric moisture_raw or ts
Unusable(msg) ==
    msg.kind \in {"undecodable", "array", "object_text_raw", "object_text_ts"}

\* C13: a call given an undecodable payload, JSON that is not an object, or a
\* non-numeric moisture_raw or ts ends as a drop - it does not raise out of the callback
\* and end the network loop - and leaves the registry's keys and every pipeline as
\* they were and publishes nothing, so later messages are still handled.
C13_FaultIsolated ==
    [][ (nmsgs' = nmsgs + 1 /\ Unusable(last'.msg)) =>
            /\ last'.verdict # "raised"
            /\ dict_keys(sensors') = dict_keys(sensors)
            /\ \A o \in 1..Len(heap) : heap'[o] = heap[o]
            /\ published' = published
      ]_vars

\* C14: once main has set stop, the monitor begins no sweep (it does not go from its
\* sleep into check_stale) and no pipeline changes.
C14_NoSweepAfterStop ==
    [][ main # "running" =>
            /\ ~(mon.pc = "sleep" /\ mon'.pc = "stale")
            /\ heap' = heap
      ]_vars

\* C15: on every dashboard line the OK, NOISY, SPIKY and STALE counts (each sensor
\* counted once, in the first category of STALE, NOISY, SPIKY, OK that applies) add up
\* to the total printed on that line, also when the callback registers a sensor while
\* the summary is being computed.
C15_CountsSumToTotal ==
    IsSet(mon.dashboard) =>
        LET d == Val(mon.dashboard)
        IN  d.ok + d.noisy + d.spiky + d.stale = d.total

\* v is the k-th smallest value of window w
IsKth(w, v, k) ==
    /\ Cardinality({i \in 1..Len(w) : w[i] < v}) < k
    /\ Cardinality({i \in 1..Len(w) : w[i] <= v}) >= k

\* C16 as claimed: after the push, the median taken is the middle element of the
\* sorted window, a value present in the window, at every fill level.
C16_MedianInWindow ==
    last.verdict = "accepted" =>
        LET w == heap[last.obj].raw_buffer
        IN  \E i \in 1..Len(w) :
                /\ last.window_median = w[i] * CENT
                /\ IsKth(w, w[i], (Len(w) + 1) \div 2)

\* C16 amended: after the push, the median taken is the middle element of the sorted
\* window when the window holds an odd number of samples (1, 3, 5, 7), and the mean of
\* its two middle elements when it holds an even number (2, 4, 6) - a value that need
\* not be in the window.
C16_MedianOfWindow ==
    last.verdict = "accepted" =>
        LET w == heap[last.obj].raw_buffer
            n == Len(w)
            m == last.window_median
        IN  /\ n \in 1..MEDIAN_WINDOW
            /\ n % 2 = 1 =>
                  \E i \in 1..n : IsKth(w, w[i], (n + 1) \div 2) /\ m = w[i] * CENT
            /\ n % 2 = 0 =>
                  \E i, j \in 1..n :
                      /\ IsKth(w, w[i], n \div 2)
                      /\ IsKth(w, w[j], n \div 2 + 1)
                      /\ 2 * m = (w[i] + w[j]) * CENT

\* a window of four samples whose median, 507.50, is none of them
C16_Witness ==
    /\ last.verdict = "accepted"
    /\ Len(heap[last.obj].raw_buffer) = 4
    /\ last.window_median = 50750
    /\ \A i \in 1..4 : heap[last.obj].raw_buffer[i] * CENT # last.window_median

\* the elements of a sequence
Elems(q) == {q[i] : i \in 1..Len(q)}

C18_StaleRule ==
    [][ /\ (mon.pc = "stale" /\ mon'.pc = "stale" /\ mon'.it_pos = mon.it_pos + 1) =>
              LET e == sensors[mon'.it_pos]
                  s == heap[e.obj]
              IN  /\ e.sid \in mon'.warned <=>
                        (s.last_ts > 0 /\ mon.t - s.last_ts > STALE_TIMEOUT_S)
                  /\ mon'.warned \ {e.sid} = mon.warned \ {e.sid}
        /\ (mon.pc = "summary" /\ Len(mon'.visited) = Len(mon.visited) + 1) =>
              LET e == sensors[Len(mon'.visited)]
                  s == heap[e.obj]
              IN  /\ mon'.stale = mon.stale + 1 <=>
                        (s.last_ts > 0 /\ mon.t - s.last_ts > STALE_TIMEOUT_S)
                  /\ mon'.stale \in {mon.stale, mon.stale + 1}
      ]_vars

\* a dashboard taken 11 s after one sensor's last timestamp, counting it STALE, and
\* counting OK a sensor whose last_ts is still 0
C18_Witness ==
    /\ IsSet(mon.dashboard)
    /\ Val(mon.dashboard).stale = 1
    /\ Val(mon.dashboard).ok = 1
    /\ dict_has(sensors, "zone00") /\ now - Pipeline("zone00").last_ts = STALE_TIMEOUT_S + 1
    /\ dict_has(sensors, "zone01") /\ Pipeline("zone01").last_ts = 0

\* C19: in every reachable state of every pipeline, ema is set exactly when the
\* pipeline has accepted a sample (total_received >= 1), and last_filtered is set
\* exactly when ema is; a pipeline never fed has both unset.
C19_EmaSetIffFed ==
    \A o \in Objects :
        /\ IsSet(heap[o].ema) <=> heap[o].total_received >= 1
        /\ IsSet(heap[o].last_filtered) <=> IsSet(heap[o].ema)
        /\ heap[o].total_received = 0 =>
              (heap[o].ema = None /\ heap[o].last_filtered = None)

\* one pipeline has accepted a sample and has both set; another was registered by a
\* call that raised before feeding it and has both unset
C19_Witness ==
    \E o1, o2 \in Objects :
        /\ heap[o1].total_received >= 1
        /\ IsSet(heap[o1].ema) /\ IsSet(heap[o1].last_filtered)
        /\ heap[o2].total_received = 0
        /\ heap[o2].ema = None /\ heap[o2].last_filtered = None

\* C20: a step of the monitor (stale check, health summary) leaves the registry and
\* every pipeline as they were; handling a message for one sensor id leaves the
\* pipeline and registry entry of every other sensor as they were; and no step that
\* is not the handling of a message changes a pipeline.
C20_Frame ==
    [][ /\ mon' # mon => (heap' = heap /\ sensors' = sensors)
        /\ nmsgs' = nmsgs + 1 =>
              /\ \A o \in Objects :
                    heap[o].sensor_id # last'.sensor_id => heap'[o] = heap[o]
              /\ \A i \in 1..Len(sensors) :
                    sensors[i].sid # last'.sensor_id => sensors'[i] = sensors[i]
        /\ nmsgs' = nmsgs => (heap' = heap /\ sensors' = sensors)
      ]_vars

\* the monitor has printed a dashboard over the first sensor, and a sample of the
\* second sensor has been accepted since, the first sensor's pipeline in place
C20_Witness ==
    /\ IsSet(mon.dashboard)
    /\ Val(mon.dashboard).total = 1
    /\ last.verdict = "accepted"
    /\ last.sensor_id = "zone01"
    /\ dict_has(sensors, "zone00")
    /\ Pipeline("zone00").total_received = MonLen

\* C21: the status of every reading is DRY exactly when filtered < 350, OVERWATER
\* exactly when filtered > 650 and OK otherwise - 350.00 and 650.00 themselves are OK -
\* whatever the reading's raw value, median and health.
C21_StatusByFiltered ==
    last.verdict = "accepted" =>
        LET f == Val(last.result).filtered
            st == Val(last.result).status
        IN  /\ st \in {"DRY", "OK", "OVERWATER"}
            /\ st = "DRY" <=> f < MOISTURE_DRY * CENT
            /\ st = "OVERWATER" <=> f > MOISTURE_OVERWATER * CENT
            /\ st = "OK" <=> (f >= MOISTURE_DRY * CENT /\ f <= MOISTURE_OVERWATER * CENT)
            /\ f = Val(heap[last.obj].last_filtered)

\* a reading whose filtered value is exactly 350.00 is OK, though its raw value is
\* below the threshold
C21_Witness ==
    /\ last.verdict = "accepted"
    /\ Val(last.result).filtered = MOISTURE_DRY * CENT
    /\ Val(last.result).status = "OK"
    /\ last.raw < MOISTURE_DRY

\* C22: after any messages handled one at a time, each registered pipeline's median
\* window holds exactly min(total_received, 7) values, its residual window
\* min(total_received, 20), its clamp history min(total_received, 30), and
\* total_received + total_ooo_dropped is the number of messages routed to it.
C22_CountsAndFill ==
    \A sid \in Registered :
        LET p == Pipeline(sid)
        IN  /\ Len(p.raw_buffer) = Min2(p.total_received, MEDIAN_WINDOW)
            /\ Len(p.residual_buffer) = Min2(p.total_received, RESIDUAL_WINDOW)
            /\ Len(p.clamp_history) = Min2(p.total_received, SPIKE_CLAMP_WINDOW)
            /\ p.total_received + p.total_ooo_dropped = routed[sid]

\* 32 messages routed: 31 accepted, past the capacity of all three windows, 1 rejected
C22_Witness ==
    /\ dict_has(sensors, "zone00")
    /\ routed["zone00"] = BurstLen
    /\ Pipeline("zone00").total_received = BurstLen - 1
    /\ Pipeline("zone00").total_ooo_dropped = 1
    /\ Len(Pipeline("zone00").clamp_history) = SPIKE_CLAMP_WINDOW

\* C23: in the hub, once every call of _do_publish that was scheduled has run,
\* received = dropped + forwarded + pub_fail, whatever the datagrams were and however
\* the publishing threads interleaved.
HubQuiet == \A i \in 1..Len(hub.calls) : hub.calls[i].pc = "done"

C23_EveryPacketCounted ==
    HubQuiet =>
        hub.stats.received =
            hub.stats.dropped + hub.stats.forwarded + stats_get_pub_fail(hub.stats)

\* the same sum when every datagram was a JSON object, so that no call of _do_publish
\* ended in its except clause: it still fails, by two threads storing the same
\* incremented value
HubObjectsCounted ==
    (HubQuiet /\ \A i \in 1..Len(hub.calls) : hub.calls[i].outcome # "error") =>
        hub.stats.received =
            hub.stats.dropped + hub.stats.forwarded + stats_get_pub_fail(hub.stats)

\* C24 as stated: in the simulator no two sensors share a sensor_id, and a create
\* command whose id, given or generated, is already in use leaves the sensors and
\* threads lists as they were, while every other create command appends exactly one
\* sensor with that id and its thread.
SimUniqueIds ==
    \A i, j \in 1..Len(sim.sensors) :
        sim.sensors[i].sensor_id = sim.sensors[j].sensor_id => i = j

IsCreate(c) == c.topic = CREATE_TOPIC /\ c.payload.json # "invalid"

\* what the command c did to the lists is what the claim says of a create command
CreateRule(c) ==
    LET sid == create_id(c.payload, c.next_sensor_idx)
    IN  IF is_duplicate(sid, c.sensors)
        THEN sim.sensors = c.sensors /\ sim.threads = c.threads
        ELSE /\ Len(sim.sensors) = Len(c.sensors) + 1
             /\ SubSeq(sim.sensors, 1, Len(c.sensors)) = c.sensors
             /\ sim.sensors[Len(sim.sensors)].sensor_id = sid
             /\ sim.threads = Append(c.threads, ThreadName(sid))

IsObjectCreate(c) == IsCreate(c) /\ c.handled /\ c.payload.json = "object"

====
